---- MODULE Spec2Model ----
(***************************************************************************)
(* Model of the retrieval core of the FMBN assistant:                      *)
(*   - ingest.sliding_window            (chunker loop)                     *)
(*   - search_agent.clean_prompt_for_search (query normalisation)          *)
(*   - search_agent.HybridSearchTool.hybrid_search (retrieval and fusion)  *)
(* Strings are sequences: a document text is a sequence of one-character   *)
(* strings, a query is a sequence of atoms (a word, i.e. a maximal run of  *)
(* \w characters, or one space character).                                 *)
(***************************************************************************)
EXTENDS Integers, Sequences, FiniteSets, TLC

\* ---------------------------------------------------------------- bounds
MaxTextLen == 12
MaxNegative == 2
MaxSize == 6
MaxStep == 6
MaxParts == 2
CorpusSize == 13
NumKeys == 11
MaxDocs == 2
MaxDocLen == 5
MaxDocSize == 3
MaxCalls == 2
NumPages == 3
MaxPagesArg == 3
MaxRuns == 2
MaxTurns == 3

\* ------------------------------------------------------ program constants
MAX_CHUNKS == 10
K_text == 10
K_vector == 8
DEFAULT_SIZE == 2000
DEFAULT_STEP == 1000

VARIABLES
    \* ingest.sliding_window
    seq, size, step, i, result, swpc,
    \* search_agent.HybridSearchTool
    query, aut_index, autogen_vindex,
    search_query, lex_query, q_vector, text_results, vector_results,
    seen_contents, combined_results, pos, returned, hpc,
    \* ingest.chunk_documents
    docs, docs_before, di, chunks, first_chunks, calls, cdpc,
    \* ingest.scrape_website_dynamic
    to_visit, visited, crawl_docs, max_pages, pdf_url, scrape_log, cpc,
    \* ingest.index_website_data
    chunk_file, emb_file, ichunks, chunk_embeddings, fit_args, encode_log,
    run, ipc,
    \* app.main_app and main.main
    messages, user_prompt, app_pc, question, cli_pc, cli_out

chunkVars == <<seq, size, step, i, result, swpc>>
searchVars == <<query, aut_index, autogen_vindex, search_query, lex_query,
                q_vector, text_results, vector_results, seen_contents,
                combined_results, pos, returned, hpc>>
docVars == <<docs, docs_before, di, chunks, first_chunks, calls, cdpc>>
crawlVars == <<to_visit, visited, crawl_docs, max_pages, pdf_url, scrape_log, cpc>>
indexVars == <<chunk_file, emb_file, ichunks, chunk_embeddings, fit_args,
               encode_log, run, ipc>>
chatVars == <<messages, user_prompt, app_pc, question, cli_pc, cli_out>>
vars == <<seq, size, step, i, result, swpc,
          query, aut_index, autogen_vindex, search_query, lex_query,
          q_vector, text_results, vector_results, seen_contents,
          combined_results, pos, returned, hpc,
          docs, docs_before, di, chunks, first_chunks, calls, cdpc,
          to_visit, visited, crawl_docs, max_pages, pdf_url, scrape_log, cpc,
          chunk_file, emb_file, ichunks, chunk_embeddings, fit_args,
          encode_log, run, ipc,
          messages, user_prompt, app_pc, question, cli_pc, cli_out>>

\* ------------------------------------------------------------ helpers
Min(a, b) == IF a < b THEN a ELSE b

Take(s, n) == IF Len(s) <= n THEN s ELSE SubSeq(s, 1, n)

Letters == <<"a", "b", "c", "d", "e", "f", "g", "h", "i", "j", "k", "l", "m",
             "n", "o", "p", "q", "r", "s", "t", "u", "v", "w", "x", "y", "z">>

\* Document texts: every contiguous substring of the first MaxTextLen
\* letters, the empty text included.
Texts ==
    {<<>>} \cup {SubSeq(Letters, a, b) : a \in 1..MaxTextLen, b \in 1..MaxTextLen}

\* ============================================================ chunker
\* Python slice s[lo:hi] for lo >= 0: a negative hi counts from the end,
\* both ends are clamped to the length, an empty range gives "".
PySlice(s, lo, hi) ==
    LET n == Len(s)
        h0 == IF hi < 0 THEN (IF hi + n < 0 THEN 0 ELSE hi + n) ELSE hi
        h == Min(h0, n)
        l == Min(lo, n)
    IN IF h > l THEN SubSeq(s, l + 1, h) ELSE <<>>

\* range(0, n, step) still has the element k.
InRange(k, n, st) == IF st > 0 THEN k < n ELSE k > n

BreakCondEarly(k, sz, n) == k + sz >= n - 1
BreakCondStrict(k, sz, n) == k + sz > n
BreakCondNever(k, sz, n) == FALSE

\* `if i + size >= n: break`
BreakCond(k, sz, n) == k + sz >= n

IdleChunker ==
    /\ seq = <<>> /\ size = 1 /\ step = 1 /\ i = 0
    /\ result = <<>> /\ swpc = "idle"

InitChunker ==
    /\ seq \in Texts
    /\ size \in (0 - MaxNegative)..MaxSize
    /\ step \in (0 - MaxNegative)..MaxStep
    /\ i = 0
    /\ result = <<>>
    /\ swpc = "call"

\* result = []; n = len(seq); range(0, n, step) is built.
SWEnter ==
    /\ swpc = "call"
    /\ step # 0
    /\ result' = <<>>
    /\ i' = 0
    /\ swpc' = "loop"
    /\ UNCHANGED <<seq, size, step>>
    /\ UNCHANGED <<searchVars, docVars, crawlVars, indexVars, chatVars>>

\* range() refuses a zero step: ValueError leaves sliding_window.
SWRangeError ==
    /\ swpc = "call"
    /\ step = 0
    /\ swpc' = "raised"
    /\ UNCHANGED <<seq, size, step, i, result>>
    /\ UNCHANGED <<searchVars, docVars, crawlVars, indexVars, chatVars>>

\* One iteration of the for loop.
SWBody ==
    /\ swpc = "loop"
    /\ InRange(i, Len(seq), step)
    /\ result' = Append(result, [start |-> i, content |-> PySlice(seq, i, i + size)])
    /\ IF BreakCond(i, size, Len(seq))
          THEN swpc' = "done" /\ i' = i
          ELSE swpc' = "loop" /\ i' = i + step
    /\ UNCHANGED <<seq, size, step>>
    /\ UNCHANGED <<searchVars, docVars, crawlVars, indexVars, chatVars>>

\* The range is exhausted: fall through to `return result`.
SWExhausted ==
    /\ swpc = "loop"
    /\ ~InRange(i, Len(seq), step)
    /\ swpc' = "done"
    /\ UNCHANGED <<seq, size, step, i, result>>
    /\ UNCHANGED <<searchVars, docVars, crawlVars, indexVars, chatVars>>

\* ================================================= query normalisation
\* The alternatives of the pattern, in the order the regex tries them.
FILLER == << <<"give", " ", "me">>,
             <<"tell", " ", "me">>,
             <<"can", " ", "you", " ", "tell", " ", "me">>,
             <<"what", " ", "is">>,
             <<"how", " ", "to">>,
             <<"please">> >>

\* re.IGNORECASE: the case folding of the word atoms the model uses.
Lower(w) ==
    CASE w = "PLEASE" -> "please"
      [] w = "What" -> "what"
      [] w = "Tell" -> "tell"
      [] OTHER -> w

\* Alternative p matches at position k. A word atom is a maximal run of \w
\* characters, so both \b assertions hold at the edges of every atom and
\* fail inside one ("pleased" is one atom and is not "please").
MatchesAt(s, k, p) ==
    /\ k + Len(p) - 1 <= Len(s)
    /\ \A j \in 1..Len(p) : Lower(s[k + j - 1]) = p[j]

\* Length of the match at k (first alternative that matches), 0 if none.
MatchLen(s, k) ==
    IF \E a \in 1..Len(FILLER) : MatchesAt(s, k, FILLER[a])
       THEN LET a == CHOOSE a \in 1..Len(FILLER) :
                       /\ MatchesAt(s, k, FILLER[a])
                       /\ \A b \in 1..(a - 1) : ~MatchesAt(s, k, FILLER[b])
            IN Len(FILLER[a])
       ELSE 0

\* re.sub(pattern, '', s): leftmost, non-overlapping matches are dropped.
RECURSIVE ReSub(_, _)
ReSub(s, k) ==
    IF k > Len(s) THEN <<>>
    ELSE LET m == MatchLen(s, k)
         IN IF m > 0 THEN ReSub(s, k + m)
                     ELSE <<s[k]>> \o ReSub(s, k + 1)

IsWord(a) == a # " "

\* str.split(): the words, all whitespace dropped.
Split(s) == SelectSeq(s, IsWord)

RECURSIVE JoinTight(_)
JoinTight(ws) ==
    IF ws = <<>> THEN <<>> ELSE <<ws[1]>> \o JoinTight(Tail(ws))

\* ' '.join(words)
RECURSIVE Join(_)
Join(ws) ==
    IF ws = <<>> THEN <<>>
    ELSE IF Len(ws) = 1 THEN <<ws[1]>>
    ELSE <<ws[1], " ">> \o Join(Tail(ws))

\* str.strip()
RECURSIVE Strip(_)
Strip(s) ==
    IF s = <<>> THEN <<>>
    ELSE IF s[1] = " " THEN Strip(Tail(s))
    ELSE IF s[Len(s)] = " " THEN Strip(SubSeq(s, 1, Len(s) - 1))
    ELSE s

\* cleaned_prompt after lines 12 and 14.
Cleaned(prompt) == Strip(Join(Split(ReSub(prompt, 1))))

NoFallback(prompt) == Cleaned(prompt)

clean_prompt_for_search(prompt) ==
    IF Cleaned(prompt) # <<>> THEN Cleaned(prompt) ELSE prompt

\* Raw queries: up to MaxParts parts separated by one or two spaces, with or
\* without a leading and a trailing space.
PartSet == { <<"give", " ", "me">>, <<"Tell", " ", "me">>,
             <<"can", " ", "you", " ", "tell", " ", "me">>,
             <<"can", " ", "you">>, <<"What", " ", "is">>, <<"what">>,
             <<"is">>, <<"how", " ", "to">>, <<"please">>, <<"PLEASE">>,
             <<"pleased">>, <<"nhf">> }

Gaps == { <<" ">>, <<" ", " ">> }
Pads == { <<>>, <<" ">> }

RECURSIVE JoinParts(_, _)
JoinParts(ps, gap) ==
    IF ps = <<>> THEN <<>>
    ELSE IF Len(ps) = 1 THEN ps[1]
    ELSE ps[1] \o gap \o JoinParts(Tail(ps), gap)

PartSeqs == UNION { [1..k -> PartSet] : k \in 0..MaxParts }

Queries ==
    { lead \o JoinParts(ps, gap) \o trail :
        lead \in Pads, ps \in PartSeqs, gap \in Gaps, trail \in Pads }

\* ======================================================= hybrid search
\* Indexed chunks as chunk_documents builds them: start, content, filename
\* and, for some, url. Chunks beyond NumKeys repeat the (filename, content)
\* of an earlier chunk at another start offset.
Files == <<"a.md", "b.md", "c.md", "d.md">>
Contents == <<"X", "Y", "Z">>
Urls == <<"https://fmbn/a", "https://fmbn/b", "https://fmbn/c", "https://fmbn/d">>

KeyOf(k) == ((k - 1) % NumKeys) + 1
FileIx(k) == ((KeyOf(k) - 1) % Len(Files)) + 1
ContentIx(k) == ((KeyOf(k) - 1) % Len(Contents)) + 1

Chunk(k) ==
    IF k % 3 = 0
       THEN [start |-> k, content |-> Contents[ContentIx(k)],
             filename |-> Files[FileIx(k)]]
       ELSE [start |-> k, content |-> Contents[ContentIx(k)],
             filename |-> Files[FileIx(k)], url |-> Urls[FileIx(k)]]

\* A ranking an index can hold for the query: n chunks from chunk a on.
Window(a, n) == [k \in 1..n |-> Chunk(((a + k - 2) % CorpusSize) + 1)]
Backward(a, n) == [k \in 1..n |-> Chunk(((a - k + CorpusSize) % CorpusSize) + 1)]

LexRankings == { Window(a, n) : a \in 1..CorpusSize, n \in 0..CorpusSize }
VecRankings == LexRankings \cup { Backward(a, n) : a \in 1..CorpusSize, n \in 0..CorpusSize }

FusionQueries == { <<"nhf">> }

\* Index pairs used where the query, not the ranking, is what varies.
QueryIndexes == { << <<>>, <<>> >>, << Window(1, 1), Window(1, 2) >> }

Sentinel ==
    [filename |-> "No Results",
     content |-> "The search did not find specific content related to your query in the available documents."]

ContentIdByFile(r) == <<r.filename, r.filename>>

\* content_id = (result['filename'], result['content'])
ContentId(r) == <<r.filename, r.content>>

AcceptsNoCap(cid, seen, combined) == cid \notin seen /\ Len(combined) <= MAX_CHUNKS
AcceptsNoDedup(cid, seen, combined) == Len(combined) < MAX_CHUNKS

\* `content_id not in seen_contents and len(combined_results) < MAX_CHUNKS`
Accepts(cid, seen, combined) ==
    cid \notin seen /\ Len(combined) < MAX_CHUNKS

\* The record the lexical loop appends.
TextRecord(r) == [filename |-> r.filename, content |-> r.content]

\* The record the semantic loop appends.
VectorRecord(r) ==
    [display_name |-> r.filename,
     link_url |-> IF "url" \in DOMAIN r THEN r.url ELSE r.filename,
     content |-> r.content]

ReturnValueNoFallback(combined) == combined

\* Lines 82-85: the sentinel list when fusion found nothing.
ReturnValue(combined) ==
    IF combined = <<>> THEN <<Sentinel>> ELSE combined

\* embedding_model.encode(text): the vector is identified by the text.
Encode(text) == <<"vec", text>>

IdleSearch ==
    /\ query = <<>> /\ aut_index = <<>> /\ autogen_vindex = <<>>
    /\ search_query = <<>> /\ lex_query = <<>> /\ q_vector = <<>>
    /\ text_results = <<>> /\ vector_results = <<>>
    /\ seen_contents = {} /\ combined_results = <<>>
    /\ pos = 1 /\ returned = <<>> /\ hpc = "idle"

InitSearch(Q, LR, VR) ==
    /\ query \in Q
    /\ aut_index \in LR
    /\ autogen_vindex \in VR
    /\ search_query = <<>> /\ lex_query = <<>> /\ q_vector = <<>>
    /\ text_results = <<>> /\ vector_results = <<>>
    /\ seen_contents = {} /\ combined_results = <<>>
    /\ pos = 1 /\ returned = <<>> /\ hpc = "call"

\* search_query = clean_prompt_for_search(query)
HSClean ==
    /\ hpc = "call"
    /\ search_query' = clean_prompt_for_search(query)
    /\ hpc' = "text_search"
    /\ UNCHANGED <<query, aut_index, autogen_vindex, lex_query, q_vector,
                   text_results, vector_results, seen_contents,
                   combined_results, pos, returned>>
    /\ UNCHANGED <<chunkVars, docVars, crawlVars, indexVars, chatVars>>

\* text_results = self.aut_index.search(query=search_query, num_results=10)
HSTextSearch ==
    /\ hpc = "text_search"
    /\ lex_query' = search_query
    /\ text_results' = Take(aut_index, K_text)
    /\ hpc' = "encode"
    /\ UNCHANGED <<query, aut_index, autogen_vindex, search_query, q_vector,
                   vector_results, seen_contents, combined_results, pos,
                   returned>>
    /\ UNCHANGED <<chunkVars, docVars, crawlVars, indexVars, chatVars>>

\* q_vector = self.embedding_model.encode(search_query)
HSEncode ==
    /\ hpc = "encode"
    /\ q_vector' = Encode(search_query)
    /\ hpc' = "vector_search"
    /\ UNCHANGED <<query, aut_index, autogen_vindex, search_query, lex_query,
                   text_results, vector_results, seen_contents,
                   combined_results, pos, returned>>
    /\ UNCHANGED <<chunkVars, docVars, crawlVars, indexVars, chatVars>>

HSEncodeDegrades ==
    /\ hpc = "encode"
    /\ hpc' = "raised"
    /\ combined_results' = text_results
    /\ returned' = text_results
    /\ UNCHANGED <<query, aut_index, autogen_vindex, search_query, lex_query,
                   q_vector, text_results, vector_results, seen_contents, pos>>
    /\ UNCHANGED <<chunkVars, docVars, crawlVars, indexVars, chatVars>>

\* The embedding call raises: nothing catches it inside hybrid_search.
HSEncodeRaises ==
    /\ hpc = "encode"
    /\ hpc' = "raised"
    /\ UNCHANGED <<query, aut_index, autogen_vindex, search_query, lex_query,
                   q_vector, text_results, vector_results, seen_contents,
                   combined_results, pos, returned>>
    /\ UNCHANGED <<chunkVars, docVars, crawlVars, indexVars, chatVars>>

\* vector_results = self.autogen_vindex.search(q_vector, num_results=8);
\* seen_contents = set(); combined_results = []
HSVectorSearch ==
    /\ hpc = "vector_search"
    /\ vector_results' = Take(autogen_vindex, K_vector)
    /\ seen_contents' = {}
    /\ combined_results' = <<>>
    /\ pos' = 1
    /\ hpc' = "text_loop"
    /\ UNCHANGED <<query, aut_index, autogen_vindex, search_query, lex_query,
                   q_vector, text_results, returned>>
    /\ UNCHANGED <<chunkVars, docVars, crawlVars, indexVars, chatVars>>

\* One iteration of `for result in text_results`.
HSTextLoop ==
    /\ hpc = "text_loop"
    /\ pos <= Len(text_results)
    /\ LET r == text_results[pos]
       IN IF Accepts(ContentId(r), seen_contents, combined_results)
             THEN /\ seen_contents' = seen_contents \cup {ContentId(r)}
                  /\ combined_results' = Append(combined_results, TextRecord(r))
             ELSE UNCHANGED <<seen_contents, combined_results>>
    /\ pos' = pos + 1
    /\ UNCHANGED <<query, aut_index, autogen_vindex, search_query, lex_query,
                   q_vector, text_results, vector_results, returned, hpc>>
    /\ UNCHANGED <<chunkVars, docVars, crawlVars, indexVars, chatVars>>

HSTextLoopEnd ==
    /\ hpc = "text_loop"
    /\ pos > Len(text_results)
    /\ pos' = 1
    /\ hpc' = "vector_loop"
    /\ UNCHANGED <<query, aut_index, autogen_vindex, search_query, lex_query,
                   q_vector, text_results, vector_results, seen_contents,
                   combined_results, returned>>
    /\ UNCHANGED <<chunkVars, docVars, crawlVars, indexVars, chatVars>>

\* One iteration of `for result in vector_results`.
HSVectorLoop ==
    /\ hpc = "vector_loop"
    /\ pos <= Len(vector_results)
    /\ LET r == vector_results[pos]
       IN IF Accepts(ContentId(r), seen_contents, combined_results)
             THEN /\ seen_contents' = seen_contents \cup {ContentId(r)}
                  /\ combined_results' = Append(combined_results, VectorRecord(r))
             ELSE UNCHANGED <<seen_contents, combined_results>>
    /\ pos' = pos + 1
    /\ UNCHANGED <<query, aut_index, autogen_vindex, search_query, lex_query,
                   q_vector, text_results, vector_results, returned, hpc>>
    /\ UNCHANGED <<chunkVars, docVars, crawlVars, indexVars, chatVars>>

HSVectorLoopEnd ==
    /\ hpc = "vector_loop"
    /\ pos > Len(vector_results)
    /\ hpc' = "return"
    /\ UNCHANGED <<query, aut_index, autogen_vindex, search_query, lex_query,
                   q_vector, text_results, vector_results, seen_contents,
                   combined_results, pos, returned>>
    /\ UNCHANGED <<chunkVars, docVars, crawlVars, indexVars, chatVars>>

\* `if not combined_results: return [sentinel]`, else
\* `return combined_results`.
HSReturn ==
    /\ hpc = "return"
    /\ returned' = ReturnValue(combined_results)
    /\ hpc' = "done"
    /\ UNCHANGED <<query, aut_index, autogen_vindex, search_query, lex_query,
                   q_vector, text_results, vector_results, seen_contents,
                   combined_results, pos>>
    /\ UNCHANGED <<chunkVars, docVars, crawlVars, indexVars, chatVars>>

\* ===================================================== chunk_documents
\* A source document: filename, content and, for some, url.
Doc(k, text) ==
    IF k % 2 = 1
       THEN [filename |-> Files[k], content |-> text, url |-> Urls[k]]
       ELSE [filename |-> Files[k], content |-> text]

DocTexts == { SubSeq(Letters, 1, n) : n \in 0..MaxDocLen }

DocLists ==
    UNION { { [k \in 1..n |-> Doc(k, ts[k])] : ts \in [1..n -> DocTexts] } :
            n \in 0..MaxDocs }

\* doc.pop("content", ""): the value read.
PoppedText(d) == IF "content" \in DOMAIN d THEN d.content ELSE <<>>

DocAfterGet(d) == d

\* doc.pop("content", ""): the document left behind.
DocAfterPop(d) == [f \in (DOMAIN d) \ {"content"} |-> d[f]]

UpdateNoMetadata(ck, d) == ck

\* ck.update(doc.copy()): the fields of the document win.
Update(ck, d) ==
    [f \in (DOMAIN ck) \cup (DOMAIN d) |-> IF f \in DOMAIN d THEN d[f] ELSE ck[f]]

IdleDocs ==
    /\ docs = <<>> /\ docs_before = <<>> /\ di = 1 /\ chunks = <<>>
    /\ first_chunks = <<>> /\ calls = 0 /\ cdpc = "idle"

\* chunk_documents(docs, size, step) is entered: chunks = [].
InitDocs ==
    /\ docs \in DocLists
    /\ docs_before = docs
    /\ size \in (0 - 1)..MaxDocSize
    /\ step \in (0 - 1)..MaxDocSize
    /\ seq = <<>> /\ i = 0 /\ result = <<>> /\ swpc = "idle"
    /\ di = 1 /\ chunks = <<>> /\ first_chunks = <<>>
    /\ calls = 1 /\ cdpc = "loop"

\* `text = doc.pop("content", "")` with `if not text: continue`.
CDSkipDoc ==
    /\ cdpc = "loop"
    /\ di <= Len(docs)
    /\ PoppedText(docs[di]) = <<>>
    /\ docs' = [docs EXCEPT ![di] = DocAfterPop(docs[di])]
    /\ di' = di + 1
    /\ UNCHANGED <<docs_before, chunks, first_chunks, calls, cdpc>>
    /\ UNCHANGED <<chunkVars, searchVars, crawlVars, indexVars, chatVars>>

\* `text = doc.pop("content", "")` and the call sliding_window(text, ...).
CDEnterWindow ==
    /\ cdpc = "loop"
    /\ di <= Len(docs)
    /\ PoppedText(docs[di]) # <<>>
    /\ seq' = PoppedText(docs[di])
    /\ docs' = [docs EXCEPT ![di] = DocAfterPop(docs[di])]
    /\ i' = 0
    /\ result' = <<>>
    /\ swpc' = "call"
    /\ cdpc' = "window"
    /\ UNCHANGED <<size, step>>
    /\ UNCHANGED <<docs_before, di, chunks, first_chunks, calls>>
    /\ UNCHANGED <<searchVars, crawlVars, indexVars, chatVars>>

\* `for ck in sliding_window(...): ck.update(doc.copy()); chunks.append(ck)`
CDCollect ==
    /\ cdpc = "window"
    /\ swpc = "done"
    /\ chunks' = chunks \o [k \in 1..Len(result) |-> Update(result[k], docs[di])]
    /\ di' = di + 1
    /\ swpc' = "idle"
    /\ cdpc' = "loop"
    /\ UNCHANGED <<seq, size, step, i, result>>
    /\ UNCHANGED <<docs, docs_before, first_chunks, calls>>
    /\ UNCHANGED <<searchVars, crawlVars, indexVars, chatVars>>

\* sliding_window raised (zero step): the error leaves chunk_documents.
CDRaise ==
    /\ cdpc = "window"
    /\ swpc = "raised"
    /\ cdpc' = "raised"
    /\ UNCHANGED <<docs, docs_before, di, chunks, first_chunks, calls>>
    /\ UNCHANGED <<chunkVars, searchVars, crawlVars, indexVars, chatVars>>

\* `return chunks`
CDReturn ==
    /\ cdpc = "loop"
    /\ di > Len(docs)
    /\ cdpc' = "done"
    /\ UNCHANGED <<docs, docs_before, di, chunks, first_chunks, calls>>
    /\ UNCHANGED <<chunkVars, searchVars, crawlVars, indexVars, chatVars>>

\* The caller applies chunk_documents again to the same list object.
CDCallAgain ==
    /\ cdpc = "done"
    /\ calls < MaxCalls
    /\ calls' = calls + 1
    /\ first_chunks' = IF calls = 1 THEN chunks ELSE first_chunks
    /\ docs_before' = docs
    /\ chunks' = <<>>
    /\ di' = 1
    /\ cdpc' = "loop"
    /\ UNCHANGED docs
    /\ UNCHANGED <<chunkVars, searchVars, crawlVars, indexVars, chatVars>>

\* ============================================== scrape_website_dynamic
\* Pages of the site are numbered; page 1 is base_url.
Pages == 1..NumPages

PageText(p) == IF p = 2 THEN <<>> ELSE SubSeq(Letters, 1, p)

\* The document appended for a page that was scraped.
PageDoc(p) == [filename |-> Files[p], content |-> PageText(p), url |-> Urls[p]]

\* The document download_and_read_pdf returns when the PDF was read.
PdfDoc ==
    [filename |-> "National Housing Fund (NHF) Act [PDF]",
     content |-> <<"n", "h", "f">>,
     url |-> "https://fmbn/nhf.pdf"]

\* list(links) of a scraped page: same-site pages in any order, no repeats.
LinkLists ==
    UNION { { l \in [1..n -> Pages] : \A a, b \in 1..n : a # b => l[a] # l[b] } :
            n \in 0..NumPages }

RECURSIVE AppendNewNoQueueCheck(_, _, _)
AppendNewNoQueueCheck(queue, seen, links) ==
    IF links = <<>> THEN queue
    ELSE IF links[1] \in seen
         THEN AppendNewNoQueueCheck(queue, seen, Tail(links))
         ELSE AppendNewNoQueueCheck(Append(queue, links[1]), seen, Tail(links))

RECURSIVE AppendNew(_, _, _)
\* `for link in links: if link not in visited and link not in to_visit:
\*  to_visit.append(link)`
AppendNew(queue, seen, links) ==
    IF links = <<>> THEN queue
    ELSE IF links[1] \in seen \/ \E k \in 1..Len(queue) : queue[k] = links[1]
         THEN AppendNew(queue, seen, Tail(links))
         ELSE AppendNew(Append(queue, links[1]), seen, Tail(links))

VisitedIfScraped(vis, current, ok) == IF ok THEN vis \cup {current} ELSE vis

\* visited.add(current), whatever the scrape gave.
VisitedAfter(vis, current, ok) == vis \cup {current}

DocsAfterPdfReset(ds, pdf_docs) == IF pdf_docs = <<>> THEN <<>> ELSE ds \o pdf_docs

\* `if pdf_docs: docs.extend(pdf_docs)`
DocsAfterPdf(ds, pdf_docs) == ds \o pdf_docs

CrawlGuardNoBound == to_visit # <<>>

\* `while to_visit and len(visited) < max_pages`
CrawlGuard == to_visit # <<>> /\ Cardinality(visited) < max_pages

\* scrape_website_dynamic(base_url, pdf_url, max_pages) is entered.
InitCrawl ==
    /\ to_visit = <<1>>
    /\ visited = {}
    /\ crawl_docs = <<>>
    /\ max_pages \in 0..MaxPagesArg
    /\ pdf_url \in BOOLEAN
    /\ scrape_log = <<>>
    /\ cpc = "loop"

\* One iteration of the while loop: pop the head, skip it if visited, else
\* scrape it (a document with links, None, or an exception), mark it
\* visited and enqueue the new links of a document.
CrawlIterate ==
    /\ cpc = "loop"
    /\ CrawlGuard
    /\ LET current == Head(to_visit)
           rest == Tail(to_visit)
       IN IF current \in visited
             THEN /\ to_visit' = rest
                  /\ UNCHANGED <<visited, crawl_docs, scrape_log>>
             ELSE \/ \E links \in LinkLists :
                       /\ visited' = VisitedAfter(visited, current, TRUE)
                       /\ crawl_docs' = Append(crawl_docs, PageDoc(current))
                       /\ to_visit' = AppendNew(rest, visited', links)
                       /\ scrape_log' = Append(scrape_log,
                              [page |-> current, outcome |-> "ok"])
                  \/ \E out \in {"raised", "none"} :
                       /\ visited' = VisitedAfter(visited, current, FALSE)
                       /\ to_visit' = rest
                       /\ scrape_log' = Append(scrape_log,
                              [page |-> current, outcome |-> out])
                       /\ UNCHANGED crawl_docs
    /\ UNCHANGED <<max_pages, pdf_url, cpc>>
    /\ UNCHANGED <<chunkVars, searchVars, docVars, indexVars, chatVars>>

\* The while condition is false.
CrawlLoopExit ==
    /\ cpc = "loop"
    /\ ~CrawlGuard
    /\ cpc' = "pdf"
    /\ UNCHANGED <<to_visit, visited, crawl_docs, max_pages, pdf_url, scrape_log>>
    /\ UNCHANGED <<chunkVars, searchVars, docVars, indexVars, chatVars>>

\* `if pdf_url:` is false; return docs.
CrawlNoPdf ==
    /\ cpc = "pdf"
    /\ ~pdf_url
    /\ cpc' = "done"
    /\ UNCHANGED <<to_visit, visited, crawl_docs, max_pages, pdf_url, scrape_log>>
    /\ UNCHANGED <<chunkVars, searchVars, docVars, indexVars, chatVars>>

\* download_and_read_pdf returned the PDF document; return docs.
CrawlPdfRead ==
    /\ cpc = "pdf"
    /\ pdf_url
    /\ crawl_docs' = DocsAfterPdf(crawl_docs, <<PdfDoc>>)
    /\ scrape_log' = Append(scrape_log, [page |-> 0, outcome |-> "ok"])
    /\ cpc' = "done"
    /\ UNCHANGED <<to_visit, visited, max_pages, pdf_url>>
    /\ UNCHANGED <<chunkVars, searchVars, docVars, indexVars, chatVars>>

\* The download failed or the PDF had no text: download_and_read_pdf
\* returned []; return docs.
CrawlPdfFails ==
    /\ cpc = "pdf"
    /\ pdf_url
    /\ crawl_docs' = DocsAfterPdf(crawl_docs, <<>>)
    /\ scrape_log' = Append(scrape_log, [page |-> 0, outcome |-> "failed"])
    /\ cpc' = "done"
    /\ UNCHANGED <<to_visit, visited, max_pages, pdf_url>>
    /\ UNCHANGED <<chunkVars, searchVars, docVars, indexVars, chatVars>>

\* ================================================== index_website_data
\* A path that does not exist, and a file holding data.
NoFile == [exists |-> FALSE, data |-> <<>>]
FileOf(data) == [exists |-> TRUE, data |-> data]

CacheHitChunksOnly(cf, ef) == cf.exists

\* `os.path.exists(chunk_file) and os.path.exists(emb_file)`
CacheHit(cf, ef) == cf.exists /\ ef.exists

EmbeddingOfFirst(cs, k) == Encode(cs[1].content)

\* embedding_model.encode(c["content"]) for the k-th chunk.
EmbeddingFor(cs, k) == Encode(cs[k].content)

\* index_website_data is entered for the first time: nothing persisted yet.
InitIndex ==
    /\ chunk_file = NoFile /\ emb_file = NoFile
    /\ ichunks = <<>> /\ chunk_embeddings = <<>> /\ fit_args = <<>>
    /\ encode_log = <<>>
    /\ run = 1
    /\ ipc = "call"
    /\ to_visit = <<>> /\ visited = {} /\ crawl_docs = <<>>
    /\ max_pages \in 0..MaxPagesArg
    /\ pdf_url \in BOOLEAN
    /\ scrape_log = <<>> /\ cpc = "idle"

\* Both artifacts exist: pickle.load(chunk_file), np.load(emb_file).
IWLoadCache ==
    /\ ipc = "call"
    /\ CacheHit(chunk_file, emb_file)
    /\ ichunks' = chunk_file.data
    /\ chunk_embeddings' = emb_file.data
    /\ ipc' = "fit"
    /\ UNCHANGED <<chunk_file, emb_file, fit_args, encode_log, run>>
    /\ UNCHANGED <<chunkVars, searchVars, docVars, crawlVars, chatVars>>

\* An artifact is missing: scrape_website_dynamic(website_url, pdf_url,
\* max_pages) is entered.
IWStartBuild ==
    /\ ipc = "call"
    /\ ~CacheHit(chunk_file, emb_file)
    /\ to_visit' = <<1>>
    /\ visited' = {}
    /\ crawl_docs' = <<>>
    /\ scrape_log' = <<>>
    /\ cpc' = "loop"
    /\ ipc' = "crawl"
    /\ UNCHANGED <<max_pages, pdf_url>>
    /\ UNCHANGED <<chunk_file, emb_file, ichunks, chunk_embeddings, fit_args,
                   encode_log, run>>
    /\ UNCHANGED <<chunkVars, searchVars, docVars, chatVars>>

\* The crawl returned docs: chunk_documents(docs) with the default size and
\* step is entered.
IWStartChunking ==
    /\ ipc = "crawl"
    /\ cpc = "done"
    /\ docs' = crawl_docs
    /\ docs_before' = crawl_docs
    /\ size' = DEFAULT_SIZE
    /\ step' = DEFAULT_STEP
    /\ di' = 1
    /\ chunks' = <<>>
    /\ calls' = 1
    /\ cdpc' = "loop"
    /\ ipc' = "chunk"
    /\ UNCHANGED <<seq, i, result, swpc, first_chunks>>
    /\ UNCHANGED <<chunk_file, emb_file, ichunks, chunk_embeddings, fit_args,
                   encode_log, run>>
    /\ UNCHANGED <<searchVars, crawlVars, chatVars>>

\* chunk_documents returned: chunks is bound, the model is loaded and the
\* list comprehension of encode calls starts.
IWStartEmbedding ==
    /\ ipc = "chunk"
    /\ cdpc = "done"
    /\ ichunks' = chunks
    /\ chunk_embeddings' = <<>>
    /\ encode_log' = <<>>
    /\ ipc' = "embed"
    /\ UNCHANGED <<chunk_file, emb_file, fit_args, run>>
    /\ UNCHANGED <<chunkVars, searchVars, docVars, crawlVars, chatVars>>

\* One element of `[embedding_model.encode(c["content"]) for c in chunks]`.
IWEncodeChunk ==
    /\ ipc = "embed"
    /\ Len(chunk_embeddings) < Len(ichunks)
    /\ LET k == Len(chunk_embeddings) + 1
       IN /\ chunk_embeddings' = Append(chunk_embeddings, EmbeddingFor(ichunks, k))
          /\ encode_log' = Append(encode_log, ichunks[k].content)
    /\ UNCHANGED <<chunk_file, emb_file, ichunks, fit_args, run, ipc>>
    /\ UNCHANGED <<chunkVars, searchVars, docVars, crawlVars, chatVars>>

\* pickle.dump(chunks, chunk_file) once every chunk is embedded.
IWPersistChunks ==
    /\ ipc = "embed"
    /\ Len(chunk_embeddings) = Len(ichunks)
    /\ chunk_file' = FileOf(ichunks)
    /\ ipc' = "persist_emb"
    /\ UNCHANGED <<emb_file, ichunks, chunk_embeddings, fit_args, encode_log, run>>
    /\ UNCHANGED <<chunkVars, searchVars, docVars, crawlVars, chatVars>>

\* np.save(emb_file, chunk_embeddings)
IWPersistEmbeddings ==
    /\ ipc = "persist_emb"
    /\ emb_file' = FileOf(chunk_embeddings)
    /\ ipc' = "fit"
    /\ UNCHANGED <<chunk_file, ichunks, chunk_embeddings, fit_args, encode_log, run>>
    /\ UNCHANGED <<chunkVars, searchVars, docVars, crawlVars, chatVars>>

\* np.save raises (an I/O error): nothing catches it, the call ends with
\* the chunk file written and the embedding file as it was.
IWPersistEmbeddingsRaises ==
    /\ ipc = "persist_emb"
    /\ ipc' = "raised"
    /\ UNCHANGED <<chunk_file, emb_file, ichunks, chunk_embeddings, fit_args,
                   encode_log, run>>
    /\ UNCHANGED <<chunkVars, searchVars, docVars, crawlVars, chatVars>>

\* aut_index.fit(chunks); autogen_vindex.fit(chunk_embeddings, chunks);
\* return.
IWFit ==
    /\ ipc = "fit"
    /\ fit_args' = [embeddings |-> chunk_embeddings, chunks |-> ichunks]
    /\ ipc' = "done"
    /\ UNCHANGED <<chunk_file, emb_file, ichunks, chunk_embeddings, encode_log, run>>
    /\ UNCHANGED <<chunkVars, searchVars, docVars, crawlVars, chatVars>>

\* The index library, given no chunks at all, may refuse to fit: its
\* behaviour on an empty corpus is not fixed by this repository.
IWFitRaises ==
    /\ ipc = "fit"
    /\ ichunks = <<>>
    /\ ipc' = "raised"
    /\ UNCHANGED <<chunk_file, emb_file, ichunks, chunk_embeddings, fit_args,
                   encode_log, run>>
    /\ UNCHANGED <<chunkVars, searchVars, docVars, crawlVars, chatVars>>

\* The process is started again: index_website_data is entered with the
\* files the earlier run left on disk.
IWRunAgain ==
    /\ ipc \in {"done", "raised"}
    /\ run < MaxRuns
    /\ run' = run + 1
    /\ ipc' = "call"
    /\ ichunks' = <<>> /\ chunk_embeddings' = <<>> /\ fit_args' = <<>>
    /\ encode_log' = <<>>
    /\ to_visit' = <<>> /\ visited' = {} /\ crawl_docs' = <<>>
    /\ scrape_log' = <<>> /\ cpc' = "idle"
    /\ docs' = <<>> /\ docs_before' = <<>> /\ di' = 1 /\ chunks' = <<>>
    /\ first_chunks' = <<>> /\ calls' = 0 /\ cdpc' = "idle"
    /\ seq' = <<>> /\ size' = 1 /\ step' = 1 /\ i' = 0
    /\ result' = <<>> /\ swpc' = "idle"
    /\ UNCHANGED <<chunk_file, emb_file, max_pages, pdf_url>>
    /\ UNCHANGED <<searchVars, chatVars>>

\* ======================================================= question loops
Prompts == {"q1", "q2"}
StopWords == {"stop", " STOP "}

\* What the agent answers to a prompt when its run succeeds.
Answer(p) == IF p = "q1" THEN "a1" ELSE "a2"

\* f"An error occurred during agent execution: {e}"
ErrorMessage == "An error occurred during agent execution: e"

Message(role, content) == [role |-> role, content |-> content]

AfterFailurePropagates(pc) == "crashed"

\* Control after `except Exception` has recorded the error: the handler
\* ends and the next input is accepted.
AfterFailure(pc) == "ready"

\* main_app: `if prompt := st.chat_input(...)`: the user message is
\* appended before the agent runs.
AppSubmit ==
    /\ app_pc = "ready"
    /\ Len(messages) < 2 * MaxTurns
    /\ \E p \in Prompts :
          /\ user_prompt' = p
          /\ messages' = Append(messages, Message("user", p))
    /\ app_pc' = "running"
    /\ UNCHANGED <<question, cli_pc, cli_out>>
    /\ UNCHANGED <<chunkVars, searchVars, docVars, crawlVars, indexVars>>

\* agent.run(prompt) returned: the assistant message is appended.
AppAnswer ==
    /\ app_pc = "running"
    /\ messages' = Append(messages, Message("assistant", Answer(user_prompt)))
    /\ app_pc' = "ready"
    /\ UNCHANGED <<user_prompt, question, cli_pc, cli_out>>
    /\ UNCHANGED <<chunkVars, searchVars, docVars, crawlVars, indexVars>>

\* agent.run(prompt) raised: `except Exception as e` appends the error
\* message as the assistant's message.
AppAgentRaises ==
    /\ app_pc = "running"
    /\ messages' = Append(messages, Message("assistant", ErrorMessage))
    /\ app_pc' = AfterFailure(app_pc)
    /\ UNCHANGED <<user_prompt, question, cli_pc, cli_out>>
    /\ UNCHANGED <<chunkVars, searchVars, docVars, crawlVars, indexVars>>

\* main: question = input(...); 'stop' (stripped, lowered) breaks the loop.
CLIInput ==
    /\ cli_pc = "ready"
    /\ \E q \in Prompts \cup StopWords :
          /\ q \in Prompts => Len(cli_out) < MaxTurns
          /\ question' = q
          /\ cli_pc' = IF q \in StopWords THEN "stopped" ELSE "running"
    /\ UNCHANGED <<messages, user_prompt, app_pc, cli_out>>
    /\ UNCHANGED <<chunkVars, searchVars, docVars, crawlVars, indexVars>>

\* asyncio.run(agent.run(user_prompt=question)) returned: the interaction is
\* logged and response.output printed.
CLIRespond ==
    /\ cli_pc = "running"
    /\ cli_out' = Append(cli_out, Answer(question))
    /\ cli_pc' = "ready"
    /\ UNCHANGED <<messages, user_prompt, app_pc, question>>
    /\ UNCHANGED <<chunkVars, searchVars, docVars, crawlVars, indexVars>>

\* asyncio.run(agent.run(...)) raised: the while loop of main has no
\* try/except, the exception leaves main and the process ends.
CLIAgentRaises ==
    /\ cli_pc = "running"
    /\ cli_pc' = AfterFailurePropagates(cli_pc)
    /\ UNCHANGED <<messages, user_prompt, app_pc, question, cli_out>>
    /\ UNCHANGED <<chunkVars, searchVars, docVars, crawlVars, indexVars>>

\* Both programs started, each waiting for its first question.
InitChat ==
    /\ messages = <<>> /\ user_prompt = "" /\ app_pc = "ready"
    /\ question = "" /\ cli_pc = "ready" /\ cli_out = <<>>

\* Placeholders of the subsystems that are not running.
IdleCrawl ==
    /\ to_visit = <<>> /\ visited = {} /\ crawl_docs = <<>> /\ max_pages = 0
    /\ pdf_url = FALSE /\ scrape_log = <<>> /\ cpc = "idle"

IdleIndex ==
    /\ chunk_file = NoFile /\ emb_file = NoFile /\ ichunks = <<>>
    /\ chunk_embeddings = <<>> /\ fit_args = <<>> /\ encode_log = <<>>
    /\ run = 0 /\ ipc = "idle"

IdleChat ==
    /\ messages = <<>> /\ user_prompt = "" /\ app_pc = "idle"
    /\ question = "" /\ cli_pc = "idle" /\ cli_out = <<>>

\* ====================================================== specifications
\* The chunker on every bounded text, size and step.
Init == InitChunker /\ IdleSearch /\ IdleDocs /\ IdleCrawl /\ IdleIndex /\ IdleChat
Next == SWEnter \/ SWRangeError \/ SWBody \/ SWExhausted
Spec == Init /\ [][Next]_vars

\* hybrid_search on every bounded raw query.
InitQuery ==
    /\ IdleChunker /\ IdleDocs /\ IdleCrawl /\ IdleIndex /\ IdleChat
    /\ \E ix \in QueryIndexes :
         InitSearch(Queries, {ix[1]}, {ix[2]})
NextQuery ==
    \/ HSClean \/ HSTextSearch \/ HSEncode \/ HSEncodeRaises
    \/ HSVectorSearch \/ HSTextLoop \/ HSTextLoopEnd
    \/ HSVectorLoop \/ HSVectorLoopEnd
    \/ HSReturn
SpecQuery == InitQuery /\ [][NextQuery]_vars

\* hybrid_search on every bounded pair of index rankings.
InitFusion ==
    /\ IdleChunker /\ IdleDocs /\ IdleCrawl /\ IdleIndex /\ IdleChat
    /\ InitSearch(FusionQueries, LexRankings, VecRankings)
NextFusion ==
    \/ HSClean \/ HSTextSearch \/ HSEncode \/ HSEncodeRaises
    \/ HSVectorSearch \/ HSTextLoop \/ HSTextLoopEnd
    \/ HSVectorLoop \/ HSVectorLoopEnd
    \/ HSReturn
SpecFusion == InitFusion /\ [][NextFusion]_vars

\* chunk_documents on every bounded document list, applied up to MaxCalls
\* times to the same list.
InitChunkDocs == InitDocs /\ IdleSearch /\ IdleCrawl /\ IdleIndex /\ IdleChat
NextChunkDocs ==
    \/ CDSkipDoc \/ CDEnterWindow \/ CDCollect \/ CDRaise \/ CDReturn
    \/ CDCallAgain
    \/ SWEnter \/ SWRangeError \/ SWBody \/ SWExhausted
SpecChunkDocs == InitChunkDocs /\ [][NextChunkDocs]_vars

\* scrape_website_dynamic on every bounded site and max_pages.
InitCrawlSpec == InitCrawl /\ IdleChunker /\ IdleSearch /\ IdleDocs /\ IdleIndex /\ IdleChat
NextCrawl ==
    \/ CrawlIterate \/ CrawlLoopExit \/ CrawlNoPdf \/ CrawlPdfRead
    \/ CrawlPdfFails
SpecCrawl == InitCrawlSpec /\ [][NextCrawl]_vars

\* The same crawl as a running program: a statement that can execute does.
SpecCrawlLive == SpecCrawl /\ WF_vars(NextCrawl)

\* index_website_data, run up to MaxRuns times over the same two files.
InitIndexSpec == InitIndex /\ IdleChunker /\ IdleSearch /\ IdleDocs /\ IdleChat
NextIndex ==
    \/ IWLoadCache \/ IWStartBuild \/ IWStartChunking \/ IWStartEmbedding
    \/ IWEncodeChunk \/ IWPersistChunks \/ IWPersistEmbeddings
    \/ IWPersistEmbeddingsRaises \/ IWFit \/ IWFitRaises \/ IWRunAgain
    \/ CrawlIterate \/ CrawlLoopExit \/ CrawlNoPdf \/ CrawlPdfRead
    \/ CrawlPdfFails
    \/ CDSkipDoc \/ CDEnterWindow \/ CDCollect \/ CDReturn
    \/ SWEnter \/ SWBody
SpecIndex == InitIndexSpec /\ [][NextIndex]_vars

\* The Streamlit handler and the command-line loop, each over MaxTurns turns.
InitChatSpec ==
    /\ InitChat /\ IdleChunker /\ IdleSearch /\ IdleDocs /\ IdleCrawl /\ IdleIndex
NextChat ==
    \/ AppSubmit \/ AppAnswer \/ AppAgentRaises
    \/ CLIInput \/ CLIRespond \/ CLIAgentRaises
SpecChat == InitChatSpec /\ [][NextChat]_vars

\* ============================================================== claims
ChunkEnd(c) == c.start + Len(c.content)

\* C1 - Chunk coverage: with size > 0, step > 0 and step <= size the windows
\* sliding_window returns cover every offset of the text, no window extends
\* past the end of the text, and the last window ends exactly at the end.
C1_ChunkCoverage ==
    (swpc = "done" /\ size > 0 /\ step > 0 /\ step <= size) =>
        /\ \A o \in 0..(Len(seq) - 1) :
             \E k \in 1..Len(result) :
                 result[k].start <= o /\ o < ChunkEnd(result[k])
        /\ \A k \in 1..Len(result) : ChunkEnd(result[k]) <= Len(seq)
        /\ Len(seq) > 0 =>
             /\ result # <<>>
             /\ ChunkEnd(result[Len(result)]) = Len(seq)

C1_Witness ==
    /\ swpc = "done" /\ size > 0 /\ step > 0 /\ step < size
    /\ Len(result) >= 3
    /\ Len(result[Len(result)].content) < size

ExampleText == SubSeq(Letters, 1, 10)

ExampleWindows ==
    << [start |-> 0, content |-> <<"a", "b", "c", "d">>],
       [start |-> 3, content |-> <<"d", "e", "f", "g">>],
       [start |-> 6, content |-> <<"g", "h", "i", "j">>],
       [start |-> 9, content |-> <<"j">>] >>

\* C2 (as stated) - sliding_window("abcdefghij", size=4, step=3) returns
\* exactly the four windows abcd, defg, ghij, j at starts 0, 3, 6, 9.
C2_Example_Original ==
    (seq = ExampleText /\ size = 4 /\ step = 3 /\ swpc = "done") =>
        result = ExampleWindows

\* C2 (amended) - sliding_window("abcdefghij", size=4, step=3) returns
\* exactly the three windows abcd, defg, ghij at starts 0, 3, 6: the window
\* at start 6 ends at offset 10, the length of the text, so the loop stops
\* after emitting it and no window at start 9 is produced.
C2_Example ==
    (seq = ExampleText /\ size = 4 /\ step = 3) =>
        /\ swpc = "loop" =>
              (i \in {0, 3, 6} /\ result = SubSeq(ExampleWindows, 1, i \div 3))
        /\ swpc = "done" => (result = SubSeq(ExampleWindows, 1, 3) /\ i = 6)
        /\ swpc # "raised"

C2_Witness ==
    /\ seq = ExampleText /\ size = 4 /\ step = 3
    /\ swpc = "done" /\ Len(result) = 3

\* C3 - sliding_window called with size <= 0 or step <= 0 ends in an error
\* raised before any window is produced and never returns a chunk list.
C3_InvalidConfigRaises ==
    (size <= 0 \/ step <= 0) => (swpc # "done" /\ result = <<>>)

\* (identifier, content) of a returned record, whichever loop built it.
RecKey(r) ==
    IF "filename" \in DOMAIN r THEN <<r.filename, r.content>>
                               ELSE <<r.display_name, r.content>>

Keys(rs) == [k \in 1..Len(rs) |-> RecKey(rs[k])]

PoolKeys(rs) == [k \in 1..Len(rs) |-> <<rs[k].filename, rs[k].content>>]

KeySet(ks) == { ks[k] : k \in 1..Len(ks) }

\* C4 - Dedup correctness: the returned list has no two records with the
\* same (identifier, content); a candidate offered by both pools appears
\* exactly once, as the record built by the lexical loop.
C4_Dedup ==
    hpc = "done" =>
        /\ \A a, b \in 1..Len(returned) :
             a # b => RecKey(returned[a]) # RecKey(returned[b])
        /\ \A x \in 1..Len(text_results) : \A y \in 1..Len(vector_results) :
             <<text_results[x].filename, text_results[x].content>>
               = <<vector_results[y].filename, vector_results[y].content>>
             => /\ Cardinality({ a \in 1..Len(returned) :
                      RecKey(returned[a])
                        = <<text_results[x].filename, text_results[x].content>> }) = 1
                /\ \E a \in 1..Cardinality(KeySet(PoolKeys(text_results))) :
                      returned[a] = [filename |-> text_results[x].filename,
                                     content |-> text_results[x].content]

C4_Witness ==
    /\ hpc = "done"
    /\ Len(returned) >= 3
    /\ \E x \in 1..Len(text_results) : \E y \in 1..Len(vector_results) :
         /\ text_results[x].filename = vector_results[y].filename
         /\ text_results[x].content = vector_results[y].content
    /\ \E a \in 1..Len(returned) : "display_name" \in DOMAIN returned[a]

\* C5 - Cap enforcement: combined_results never holds more than MAX_CHUNKS
\* records, during fusion and on return, and it changes only by an append.
C5_Cap ==
    /\ [](Len(combined_results) <= MAX_CHUNKS /\ Len(returned) <= MAX_CHUNKS)
    /\ [][ \/ combined_results' = combined_results
           \/ /\ Len(combined_results') = Len(combined_results) + 1
              /\ SubSeq(combined_results', 1, Len(combined_results)) = combined_results
         ]_vars

C5_Witness ==
    /\ hpc = "done"
    /\ Len(returned) = MAX_CHUNKS
    /\ Len(text_results) < MAX_CHUNKS
    /\ \E y \in 1..Len(vector_results) :
         <<vector_results[y].filename, vector_results[y].content>>
            \notin KeySet(Keys(returned))

\* C6 - Empty fallback: hybrid_search never returns an empty list; with both
\* pools empty it returns exactly the sentinel record, and with a non-empty
\* pool the sentinel is not in the result.
C6_EmptyFallback ==
    hpc = "done" =>
        /\ returned # <<>>
        /\ (text_results = <<>> /\ vector_results = <<>>) => returned = <<Sentinel>>
        /\ (text_results # <<>> \/ vector_results # <<>>) =>
              \A a \in 1..Len(returned) : returned[a] # Sentinel

C6_Witness ==
    /\ hpc = "done"
    /\ text_results = <<>> /\ vector_results = <<>>
    /\ returned = <<Sentinel>>

\* C7 - Output shape: every non-sentinel record returned, from either pool,
\* has a display name equal to the identifier, the content, and a citation
\* URL (the chunk's url, else its identifier).
C7_OutputShape ==
    hpc = "done" =>
        \A a \in 1..Len(returned) :
            returned[a] # Sentinel =>
                {"display_name", "content", "link_url"} \subseteq DOMAIN returned[a]

RECURSIVE DedupKeys(_, _)
DedupKeys(ks, seen) ==
    IF ks = <<>> THEN <<>>
    ELSE IF ks[1] \in seen THEN DedupKeys(Tail(ks), seen)
    ELSE <<ks[1]>> \o DedupKeys(Tail(ks), seen \cup {ks[1]})

\* The first MAX_CHUNKS keys of L followed by S, later repetitions removed.
FusedKeys ==
    Take(DedupKeys(PoolKeys(text_results) \o PoolKeys(vector_results), {}),
         MAX_CHUNKS)

\* C8 (as stated) - for every pair of pools the keys of the returned list
\* are exactly the first MAX_CHUNKS keys of L followed by S without later
\* repetitions.
C8_FusionOrder_Original ==
    hpc = "done" => Keys(returned) = FusedKeys

\* C8 (amended) - when the pools are not both empty, the keys of the
\* returned list are exactly the first MAX_CHUNKS keys of L followed by S
\* without later repetitions, and every record built by the lexical loop
\* precedes every record built by the semantic loop; when both pools are
\* empty the returned list is the single sentinel record.
C8_FusionOrder ==
    hpc = "done" =>
        /\ (text_results # <<>> \/ vector_results # <<>>) =>
              /\ Keys(returned) = FusedKeys
              /\ \A a, b \in 1..Len(returned) :
                    ("display_name" \in DOMAIN returned[a]
                       /\ "filename" \in DOMAIN returned[b]) => b < a
        /\ (text_results = <<>> /\ vector_results = <<>>) =>
              returned = <<Sentinel>>

\* The example of the claim, plus a run where same-identifier and
\* same-content candidates are kept side by side.
C8_Witness ==
    /\ hpc = "done"
    /\ PoolKeys(text_results) = << <<"a.md", "X">> >>
    /\ PoolKeys(vector_results) = << <<"a.md", "X">>, <<"b.md", "Y">> >>
    /\ Keys(returned) = << <<"a.md", "X">>, <<"b.md", "Y">> >>

\* No filler phrase matches, single spaces only, no outer whitespace.
Normalized(q) ==
    /\ \A k \in 1..Len(q) : \A a \in 1..Len(FILLER) : ~MatchesAt(q, k, FILLER[a])
    /\ q # <<>> => (q[1] # " " /\ q[Len(q)] # " ")
    /\ \A k \in 1..(Len(q) - 1) : ~(q[k] = " " /\ q[k + 1] = " ")

C10_Fallback ==
    hpc \notin {"idle", "call"} =>
        /\ Cleaned(query) = <<>> => search_query = query
        /\ query # <<>> =>
              /\ search_query # <<>>
              /\ hpc # "text_search" => (lex_query = search_query /\ lex_query # <<>>)
              /\ hpc \notin {"text_search", "encode", "raised"} =>
                    (q_vector = Encode(search_query) /\ q_vector[2] # <<>>)

C10_Witness ==
    /\ hpc = "done"
    /\ \E k \in 1..Len(query) : query[k] # " "
    /\ Cleaned(query) = <<>>
    /\ lex_query = query
    /\ q_vector = Encode(query)

\* The document, as passed to the current call, a chunk was cut from.
ParentText(c) ==
    LET k == CHOOSE k \in 1..Len(docs_before) :
                 docs_before[k].filename = c.filename
    IN PoppedText(docs_before[k])

HasParent(c) ==
    /\ "filename" \in DOMAIN c
    /\ \E k \in 1..Len(docs_before) : docs_before[k].filename = c.filename

\* C11 - Chunk content invariant: every chunk produced by chunk_documents
\* has start >= 0 and its content is the contiguous substring of the parent
\* text that begins at start; for size > 0 it is
\* text[start : min(start + size, len(text))].
C11_ChunkContent ==
    \A j \in 1..Len(chunks) :
        LET c == chunks[j] IN
        /\ HasParent(c)
        /\ c.start >= 0
        /\ c.start + Len(c.content) <= Len(ParentText(c))
        /\ c.content = SubSeq(ParentText(c), c.start + 1, c.start + Len(c.content))
        /\ size > 0 =>
             c.content = SubSeq(ParentText(c), c.start + 1,
                                Min(c.start + size, Len(ParentText(c))))

C11_Witness ==
    /\ cdpc = "done" /\ calls = 1
    /\ Len(chunks) >= 3
    /\ \E j \in 1..Len(chunks) :
         /\ chunks[j].start > 0
         /\ Len(chunks[j].content) > 1
         /\ Len(chunks[j].content) < Len(ParentText(chunks[j]))

\* C12 - Chunk metadata: every chunk carries each metadata field of its
\* source document with the document's value, has the window as content
\* and the window's offset as start; the metadata copy leaves start and
\* content as sliding_window produced them.
C12_ChunkMetadata ==
    /\ [](\A j \in 1..Len(chunks) :
            \E k \in 1..Len(docs_before) :
               LET d == docs_before[k]
                   c == chunks[j]
               IN /\ DOMAIN c = ((DOMAIN d) \ {"content"}) \cup {"start", "content"}
                  /\ \A f \in (DOMAIN d) \ {"content"} : c[f] = d[f])
    /\ [][ (cdpc = "window" /\ cdpc' = "loop") =>
             /\ Len(chunks') = Len(chunks) + Len(result)
             /\ SubSeq(chunks', 1, Len(chunks)) = chunks
             /\ \A k \in 1..Len(result) :
                  /\ chunks'[Len(chunks) + k].start = result[k].start
                  /\ chunks'[Len(chunks) + k].content = result[k].content
                  /\ chunks'[Len(chunks) + k].filename = docs_before[di].filename
         ]_vars

C12_Witness ==
    /\ cdpc = "done" /\ calls = 1
    /\ \E j \in 1..Len(chunks) : "url" \in DOMAIN chunks[j] /\ chunks[j].start > 0
    /\ \E j \in 1..Len(chunks) : "url" \notin DOMAIN chunks[j]

\* C19 - Documents are not mutated by chunking: when chunk_documents
\* returns, every document of docs has the fields and values it had when
\* the call was made, the text body included.
C19_DocsNotMutated ==
    cdpc = "done" => docs = docs_before

\* C20 - Build idempotence: chunk_documents applied a second time to the
\* same document list returns the chunk sequence of the first application.
C20_ChunkingIdempotent ==
    (cdpc = "done" /\ calls = 2) => chunks = first_chunks

IsPageOk(e) == e.page # 0 /\ e.outcome = "ok"
IsPageFailed(e) == e.page # 0 /\ e.outcome # "ok"

\* The documents of the pages scraped successfully, in scrape order,
\* followed by the PDF document when it was read.
ExpectedCrawlDocs ==
    LET oks == SelectSeq(scrape_log, IsPageOk)
    IN [k \in 1..Len(oks) |-> PageDoc(oks[k].page)]
       \o (IF \E k \in 1..Len(scrape_log) :
                 scrape_log[k].page = 0 /\ scrape_log[k].outcome = "ok"
              THEN <<PdfDoc>> ELSE <<>>)

\* C16 - Source-fetch errors are tolerated per document: a page whose scrape
\* raises or returns nothing adds no document, is marked visited and never
\* scraped again, and the crawl goes on with the rest of the frontier; a
\* failed PDF download adds nothing and keeps the pages collected. The list
\* returned is the documents of the successful pages, then the PDF if read.
C16_FetchErrorsTolerated ==
    /\ [](/\ \A k \in 1..Len(scrape_log) :
               scrape_log[k].page # 0 => scrape_log[k].page \in visited
          /\ \A a, b \in 1..Len(scrape_log) :
               a # b => scrape_log[a].page # scrape_log[b].page
          /\ cpc = "done" => crawl_docs = ExpectedCrawlDocs)
    /\ [][ (Len(scrape_log') = Len(scrape_log) + 1
              /\ scrape_log'[Len(scrape_log')].outcome # "ok") =>
             /\ crawl_docs' = crawl_docs
             /\ scrape_log'[Len(scrape_log')].page # 0 =>
                  /\ cpc' = "loop"
                  /\ to_visit' = Tail(to_visit)
                  /\ visited' = visited \cup {Head(to_visit)}
         ]_vars

C16_Witness ==
    /\ cpc = "done"
    /\ \E a, b, c \in 1..Len(scrape_log) :
         /\ a < b /\ b < c
         /\ IsPageOk(scrape_log[a])
         /\ IsPageFailed(scrape_log[b])
         /\ IsPageOk(scrape_log[c])
    /\ scrape_log[Len(scrape_log)] = [page |-> 0, outcome |-> "failed"]
    /\ Len(crawl_docs) = 2

\* The chunks of a list of crawled documents under the default window: one
\* chunk at start 0 per document with text, carrying the document's fields.
RECURSIVE FreshChunks(_)
FreshChunks(ds) ==
    IF ds = <<>> THEN <<>>
    ELSE LET d == Head(ds)
         IN (IF d.content = <<>> THEN <<>>
             ELSE << [f \in (DOMAIN d) \cup {"start"} |->
                        IF f = "start" THEN 0 ELSE d[f]] >>)
            \o FreshChunks(Tail(ds))

EmbeddingsOf(cs) == [k \in 1..Len(cs) |-> Encode(cs[k].content)]
ContentsOf(cs) == [k \in 1..Len(cs) |-> cs[k].content]

\* A run of index_website_data that took the cache branch never entered the
\* crawl; one that took the build branch did.
LoadPath == cpc = "idle"
BuildPath == cpc = "done"

C13_BranchTaken ==
    ipc = "call" =>
        IF chunk_file.exists /\ emb_file.exists
        THEN /\ ipc' = "fit"
             /\ ichunks' = chunk_file.data
             /\ chunk_embeddings' = emb_file.data
             /\ cpc' = "idle" /\ cdpc' = "idle"
             /\ scrape_log' = <<>> /\ encode_log' = <<>>
        ELSE /\ ipc' = "crawl"
             /\ cpc' = "loop"
             /\ crawl_docs' = <<>>
             /\ ichunks' = <<>> /\ chunk_embeddings' = <<>>

C13_Outcome ==
    /\ (ipc \in {"fit", "done"} /\ LoadPath) =>
          /\ scrape_log = <<>> /\ encode_log = <<>> /\ cdpc = "idle"
          /\ ichunks = chunk_file.data
          /\ chunk_embeddings = emb_file.data
    /\ (ipc = "done" /\ LoadPath) =>
          fit_args = [embeddings |-> emb_file.data, chunks |-> chunk_file.data]
    /\ (ipc \in {"persist_emb", "fit", "done", "raised"} /\ BuildPath) =>
          /\ cdpc = "done"
          /\ chunk_file = FileOf(FreshChunks(docs_before))
          /\ docs_before = crawl_docs
    /\ (ipc \in {"fit", "done"} /\ BuildPath) =>
          /\ emb_file = FileOf(EmbeddingsOf(FreshChunks(docs_before)))
          /\ ichunks = chunk_file.data
          /\ chunk_embeddings = emb_file.data

\* C13: with both artifacts on disk index_website_data crawls, chunks and
\* embeds nothing and loads both verbatim; with either one missing (one alone
\* on disk included) it crawls, chunks, embeds and persists, and on completion
\* both artifacts hold the chunks and embeddings built in this run; the lone
\* artifact of a partial cache is never read.
C13_CachePolicy == []C13_Outcome /\ [][C13_BranchTaken]_vars

\* A second run that found only the chunk file, rebuilt and completed.
C13_Witness ==
    /\ run = 2 /\ ipc = "done" /\ BuildPath
    /\ chunk_file.data # <<>>

Aligned(es, cs) ==
    /\ Len(es) = Len(cs)
    /\ \A k \in 1..Len(cs) : es[k] = Encode(cs[k].content)

\* C14: on the build path and on the cache path alike, the embeddings handed
\* to the semantic index's fit are as many as the chunks handed with them and
\* the k-th is the embedding of the k-th chunk's content; on the build path
\* the encode calls are exactly the chunks' contents, in chunk order.
C14_Alignment ==
    /\ ipc = "done" =>
          Aligned(fit_args.embeddings, fit_args.chunks)
    /\ ipc = "fit" => Aligned(chunk_embeddings, ichunks)
    /\ (ipc \in {"persist_emb", "fit", "done"} /\ BuildPath) =>
          encode_log = ContentsOf(ichunks)

\* A fit over two chunks of different content.
C14_Witness ==
    /\ ipc = "done"
    /\ Len(fit_args.chunks) >= 2
    /\ fit_args.chunks[1].content # fit_args.chunks[2].content

\* C15: a build that obtained no document at all stops before anything is
\* persisted and before any index is fitted or returned.
C15_TotalFailureFatal ==
    (BuildPath /\ crawl_docs = <<>>) =>
        ipc \notin {"persist_emb", "fit", "done"}

C17_AppTurn ==
    app_pc = "running" =>
        /\ Len(messages') = Len(messages) + 1
        /\ SubSeq(messages', 1, Len(messages)) = messages
        /\ messages[Len(messages)] = Message("user", user_prompt)
        /\ messages'[Len(messages')].role = "assistant"
        /\ app_pc' = "ready"

C17_CliTurn ==
    cli_pc = "running" => cli_pc' = "ready"

\* C17: in the Streamlit handler and in the command-line loop alike, whatever
\* the agent run does for one question, the turn leaves the earlier messages
\* as they were, adds one user and one assistant message, and the loop is
\* ready for the next question.
C17_TurnIsolation ==
    [][(app_pc' # app_pc => C17_AppTurn) /\ (cli_pc' # cli_pc => C17_CliTurn)]_vars

\* C18: once the query's encode call has failed hybrid_search has returned
\* nothing, neither the lexical results it holds nor the sentinel, and takes
\* no further step: no retry of the encode or of the lexical search.
C18_NoDegradedSearch ==
    /\ [](hpc = "raised" => returned = <<>> /\ combined_results = <<>>)
    /\ [][hpc # "raised"]_vars

\* The encode call failed after the lexical search had found chunks.
C18_Witness == hpc = "raised" /\ text_results # <<>>

\* C21: for a non-empty text and size > 0, step > 0 the windows start at
\* 0, step, 2*step, ... in that order, each holds the text from its start up
\* to size characters and is non-empty, every window but the last has
\* start + size below the length of the text, so the first window that
\* reaches the end is the last one emitted even when the next start is still
\* inside the text, and with step <= size consecutive windows share exactly
\* size - step characters.
C21_StopRule ==
    (swpc = "done" /\ Len(seq) > 0 /\ size > 0 /\ step > 0) =>
        LET n == Len(seq)
            m == Len(result)
        IN /\ m >= 1
           /\ \A k \in 1..m :
                 /\ result[k].start = (k - 1) * step
                 /\ result[k].content =
                       SubSeq(seq, result[k].start + 1,
                              Min(result[k].start + size, n))
                 /\ result[k].content # <<>>
           /\ \A k \in 1..(m - 1) : result[k].start + size < n
           /\ \A k \in 1..m : result[k].start + size >= n => k = m
           /\ \/ result[m].start + size >= n
              \/ result[m].start + step >= n
           /\ step <= size =>
                 /\ result[m].start + size >= n
                 /\ \A k \in 1..(m - 1) :
                       ChunkEnd(result[k]) - result[k + 1].start = size - step

\* The last window reached the end of the text while the next start was
\* still inside it.
C21_Witness ==
    /\ swpc = "done" /\ size > 0 /\ step > 0 /\ step <= size
    /\ Len(result) >= 2
    /\ result[Len(result)].start + step < Len(seq)

\* The scrapes of pages so far, in order (the PDF download is logged as
\* page 0).
PageScrapes == SelectSeq(scrape_log, LAMBDA e : e.page # 0)

C22_Bounded ==
    /\ Cardinality(visited) <= max_pages
    /\ Len(PageScrapes) <= max_pages
    /\ Len(PageScrapes) = Cardinality(visited)
    /\ \A a, b \in 1..Len(PageScrapes) :
          a # b => PageScrapes[a].page # PageScrapes[b].page
    /\ max_pages = 0 => PageScrapes = <<>>

C22_Iteration ==
    (cpc = "loop" /\ cpc' = "loop") =>
        /\ Cardinality(visited) < max_pages
        /\ Cardinality(visited') = Cardinality(visited) + 1
        /\ Len(scrape_log') = Len(scrape_log) + 1

\* C22: whatever the pages link to, cycles included, and whatever
\* max_pages >= 0 is, every iteration of the crawl loop scrapes one page not
\* scraped before, at most max_pages pages are scraped (none when max_pages
\* is 0), and the crawl ends.
C22_CrawlBound ==
    /\ []C22_Bounded
    /\ [][C22_Iteration]_vars
    /\ <>(cpc = "done")

\* The crawl ended on the page bound with discovered pages still queued.
C22_Witness ==
    /\ cpc = "done"
    /\ max_pages >= 1
    /\ Cardinality(visited) = max_pages
    /\ to_visit # <<>>

\* Every URL the crawl has met, in order of discovery: the pages scraped so
\* far followed by the queue.
DiscoveryOrder ==
    [k \in 1..Len(PageScrapes) |-> PageScrapes[k].page] \o to_visit

IsPrefix(a, b) == Len(a) <= Len(b) /\ SubSeq(b, 1, Len(a)) = a

C23_Frontier ==
    /\ \A a, b \in 1..Len(to_visit) : a # b => to_visit[a] # to_visit[b]
    /\ \A a \in 1..Len(to_visit) : to_visit[a] \notin visited

C23_BreadthFirst ==
    (cpc = "loop" /\ cpc' = "loop") =>
        /\ Head(to_visit) \notin visited
        /\ PageScrapes' = Append(PageScrapes,
               [page |-> Head(to_visit),
                outcome |-> scrape_log'[Len(scrape_log')].outcome])
        /\ IsPrefix(DiscoveryOrder, DiscoveryOrder')

\* C23: whenever the crawl loop tests its condition the queue holds no URL
\* twice and none that is already visited, so the popped URL is never
\* skipped, and the queue is served first in, first out: each iteration
\* scrapes the oldest queued URL and new URLs go behind all queued ones.
C23_FrontierInvariant == []C23_Frontier /\ [][C23_BreadthFirst]_vars

\* A page has been scraped and two discovered pages wait in the queue.
C23_Witness ==
    /\ cpc = "loop"
    /\ Cardinality(visited) >= 1
    /\ Len(to_visit) >= 2

====
